---- MODULE Spec2Model ----
(***************************************************************************)
(* A model of fillomino/permapfiller.py: the PermapFiller accessor `pmf`   *)
(* attached to a pandas DataFrame holding a performance map.               *)
(*                                                                         *)
(* A table is a DataFrame together with the attribute bundle of its cached *)
(* accessor.  The corrections attribute is a Python dict that copyattr     *)
(* hands over by reference, so the dicts live in a heap and a table holds  *)
(* an index into it.  Numbers are exact rationals <<n, d>>.                *)
(***************************************************************************)
EXTENDS Integers, Sequences, FiniteSets, TLC

VARIABLES
    self,     \* the caller's table (DataFrame + accessor attributes)
    res,      \* <<>> or <<t>>: the table returned by the last call
    heap,     \* the corrections dicts, shared by reference between tables
    outcome,  \* "ok" or the exception class the last call raised
    msg,      \* the names the ValueError of _check_columns lists
    got,      \* what get_correction returned (output quantity -> curve)
    warned,   \* the last call issued a UserWarning
    op,       \* the last call and its arguments
    origin,   \* the call that returned the table self is now bound to
    written,  \* the lines of the file the last call wrote (<<>> if none)
    nops      \* number of calls made so far

vars == <<self, res, heap, outcome, msg, got, warned, op, origin, written, nops>>

----------------------------------------------------------------------------
(* Bounds of the model *)

\* calls made on the tables in one run
MaxOps == 3
\* fragments concatenated into a mode string (specification SpecMode)
MaxFrags == 2
\* rows of the tables written to a file (specification SpecPrint)
MaxRows == 2

----------------------------------------------------------------------------
(* Rational numbers: <<n, d>> with d > 0 and gcd(n, d) = 1 *)

RECURSIVE GCD(_, _)
GCD(a, b) == IF b = 0 THEN a ELSE GCD(b, a % b)

Abs(n) == IF n < 0 THEN -n ELSE n

Rat(n, d) ==
    LET g == GCD(Abs(n), Abs(d))
        s == IF d < 0 THEN -1 ELSE 1
    IN  <<(s * n) \div g, (s * d) \div g>>

RInt(n) == <<n, 1>>
RAdd(x, y) == Rat(x[1] * y[2] + y[1] * x[2], x[2] * y[2])
RSub(x, y) == Rat(x[1] * y[2] - y[1] * x[2], x[2] * y[2])
RMul(x, y) == Rat(x[1] * y[1], x[2] * y[2])
RDiv(x, y) == Rat(x[1] * y[2], x[2] * y[1])
RLess(x, y) == x[1] * y[2] < y[1] * x[2]

----------------------------------------------------------------------------
(* Correction curves: single-argument functions.  A curve is a postfix     *)
(* expression over the argument "x", numerals, and the operators           *)
(* "+", "*", "/", which is what lets the closures built by _add_correction *)
(* (cap(x) / COP(x), power(x) * COP(x)) be values of the model.            *)

Numerals == {"1", "2", "3"}
NumVal(tok) == CASE tok = "1" -> RInt(1) [] tok = "2" -> RInt(2) [] tok = "3" -> RInt(3)

RECURSIVE EvalStack(_, _, _)
EvalStack(c, x, st) ==
    IF c = <<>> THEN st[Len(st)]
    ELSE LET tok == Head(c)
             n   == Len(st)
         IN  IF tok = "x" THEN EvalStack(Tail(c), x, Append(st, x))
             ELSE IF tok \in Numerals THEN EvalStack(Tail(c), x, Append(st, NumVal(tok)))
             ELSE LET a == st[n - 1]
                      b == st[n]
                      r == CASE tok = "+" -> RAdd(a, b)
                             [] tok = "*" -> RMul(a, b)
                             [] tok = "/" -> RDiv(a, b)
                  IN  EvalStack(Tail(c), x, Append(SubSeq(st, 1, n - 2), r))

\* calling the curve c with argument x
Call(c, x) == EvalStack(c, x, <<>>)

\* def new_correction(x): return cap(x) / COP(x)
DivCurve(f, g) == f \o g \o <<"/">>
\* def new_correction(x): return power(x) * COP(x)
MulCurve(f, g) == f \o g \o <<"*">>

\* a few strictly positive curves the caller can supply
CurveLin  == <<"x", "1", "+", "2", "/">>            \* (x + 1) / 2
CurveQuad == <<"x", "x", "*", "1", "+", "2", "/">>  \* (x*x + 1) / 2
CurveAff  == <<"x", "2", "+", "3", "/">>            \* (x + 2) / 3
CurveOne  == <<"1">>                                \* 1
CurveSHR  == <<"x", "x", "1", "+", "/">>            \* x / (x + 1)

----------------------------------------------------------------------------
(* Python values *)

Range(s) == {s[i] : i \in 1..Len(s)}

\* d[k] = v on a dict
Put(d, k, v) == [x \in (DOMAIN d) \cup {k} |-> IF x = k THEN v ELSE d[x]]

EmptyDict == [k \in {} |-> <<>>]

\* an attribute that is None or a dict
NoneAttr == [isNone |-> TRUE, d |-> EmptyDict]
DictAttr(d) == [isNone |-> FALSE, d |-> d]

OutputQuantities == {"power", "capacity", "COP"}

----------------------------------------------------------------------------
(* Strings are sequences of characters; str.lower and the `in` operator *)

Lower(c) ==
    CASE c = "H" -> "h" [] c = "E" -> "e" [] c = "A" -> "a" [] c = "T" -> "t"
      [] c = "C" -> "c" [] c = "O" -> "o" [] c = "L" -> "l" [] c = "I" -> "i"
      [] c = "N" -> "n" [] c = "G" -> "g" [] c = "P" -> "p" [] c = "U" -> "u"
      [] c = "M" -> "m" [] c = "X" -> "x"
      [] OTHER -> c

StrLower(s) == [i \in 1..Len(s) |-> Lower(s[i])]

\* sub in s
Contains(s, sub) ==
    \E i \in 0..(Len(s) - Len(sub)) : SubSeq(s, i + 1, i + Len(sub)) = sub

StrHeat == <<"h", "e", "a", "t">>
StrCool == <<"c", "o", "o", "l">>

\* the variant of the mode setter's match that compares case-sensitively
ParseModeCaseSensitive(operating_mode) ==
    IF Contains(operating_mode, StrCool) THEN "cooling"
    ELSE IF Contains(operating_mode, StrHeat) THEN "heating"
    ELSE "ValueError"

\* the value the mode setter assigns to _mode, or "ValueError"
ParseMode(operating_mode) ==
    IF Contains(StrLower(operating_mode), StrCool) THEN "cooling"
    ELSE IF Contains(StrLower(operating_mode), StrHeat) THEN "heating"
    ELSE "ValueError"

----------------------------------------------------------------------------
(* Tables.  The DataFrame part: levels (row-index level names, outermost   *)
(* first), cols (column names in order), rows (index key and one value per *)
(* column).  The accessor part: mode ("None" when unset), normalized,      *)
(* entries, corr (index of the corrections dict in the heap, 0 for None)   *)
(* and manval (manval_factors).                                            *)

DefaultEntries ==
    [q \in {"freq", "AFR"} |->
        IF q = "freq" THEN <<Rat(1, 5), Rat(1, 2), RInt(1)>>
        ELSE <<RInt(0), RInt(1)>>]

\* PermapFiller.__init__ on a DataFrame with the given index, columns, data
NewAccessor(levels, cols, rows) ==
    [levels |-> levels, cols |-> cols, rows |-> rows,
     mode |-> "None", normalized |-> FALSE, entries |-> DefaultEntries,
     corr |-> 0, manval |-> NoneAttr]

\* the variant of copyattr that leaves the new accessor as constructed
CopyAttrReset(t, other) == NewAccessor(t.levels, t.cols, t.rows)

\* a copy of the frame of t with the attributes of other (by reference)
CopyAttr(t, other) ==
    [NewAccessor(t.levels, t.cols, t.rows) EXCEPT
        !.mode = other.mode, !.normalized = other.normalized,
        !.entries = other.entries, !.corr = other.corr,
        !.manval = other.manval]

Copy(t) == CopyAttr(t, t)

ColSet(t) == Range(t.cols)

\* what a call hands back: the exception class or "ok", the returned table
\* (<<>> for None or no return), the heap after the call, and the unmatched
\* names when _check_columns raised
Result(out, ret, hp) ==
    [out |-> out, ret |-> ret, heap |-> hp, ucols |-> {}, ukeys |-> {}]

Raise(exc, hp) == Result(exc, <<>>, hp)

Return(t, hp) == Result("ok", <<t>>, hp)

----------------------------------------------------------------------------
(* The default corrections of a mode *)

DefaultCurves(q) ==
    [o \in {"capacity", "power"} |->
        CASE q = "freq" -> IF o = "capacity" THEN CurveLin ELSE CurveQuad
          [] q = "AFR"  -> IF o = "capacity" THEN CurveAff ELSE CurveLin
          [] q = "Twbr" -> IF o = "capacity" THEN CurveLin ELSE CurveOne]

build_default_corrections(mode) ==
    IF mode = "cooling"
    THEN [byq |-> [q \in {"freq", "AFR", "Twbr"} |-> DefaultCurves(q)],
          SHR |-> <<CurveSHR>>]
    ELSE [byq |-> [q \in {"freq", "AFR"} |-> DefaultCurves(q)],
          SHR |-> <<>>]

----------------------------------------------------------------------------
(* Mode and correction management *)

\* _check_mode skipped
CheckModeNever(t) == FALSE

\* _check_mode: TRUE when it raises RuntimeError
CheckMode(t) == t.mode = "None"

\* _check_corrections(quantity): "ok" or the exception raised
CheckCorrections(t, hp, quantity) ==
    IF CheckMode(t) THEN "RuntimeError"
    ELSE IF t.corr = 0 THEN "TypeError"
    ELSE IF quantity \notin DOMAIN hp[t.corr].byq THEN "KeyError"
    ELSE LET corrections_number == Cardinality(DOMAIN hp[t.corr].byq[quantity])
         IN  IF corrections_number < 2 THEN "ValueError"
             ELSE IF corrections_number > 3 THEN "ValueError"
             ELSE "ok"

\* the heap after corrections[input_quantity][output_quantity] = new_correction
\* on the dict at index id
StoreCurve(hp, id, input_quantity, output_quantity, new_correction) ==
    [hp EXCEPT ![id].byq[input_quantity] =
        Put(@, output_quantity, new_correction)]

\* set_correction: the copy shares the corrections dict with self, and the
\* item assignment goes to that dict whether inplace or not
SetCorrection(t, hp, input_quantity, output_quantity, new_correction, inplace) ==
    IF CheckMode(t) THEN Raise("RuntimeError", hp)
    ELSE IF t.corr = 0 THEN Raise("TypeError", hp)
    ELSE IF input_quantity \notin DOMAIN hp[t.corr].byq THEN Raise("KeyError", hp)
    ELSE LET hp1 == StoreCurve(hp, t.corr, input_quantity, output_quantity,
                               new_correction)
         IN  IF inplace THEN Result("ok", <<>>, hp1) ELSE Return(Copy(t), hp1)

\* get_correction(input_quantity, output_quantity): the curves returned, or
\* the exception; output_quantity "None" asks for all of them
GetCorrection(t, hp, input_quantity, output_quantity) ==
    IF CheckMode(t) THEN [out |-> "RuntimeError", d |-> EmptyDict]
    ELSE IF t.corr = 0 THEN [out |-> "TypeError", d |-> EmptyDict]
    ELSE IF input_quantity \notin DOMAIN hp[t.corr].byq
         THEN [out |-> "KeyError", d |-> EmptyDict]
    ELSE LET all == hp[t.corr].byq[input_quantity]
         IN  IF output_quantity = "None" THEN [out |-> "ok", d |-> all]
             ELSE IF output_quantity \notin DOMAIN all
                  THEN [out |-> "KeyError", d |-> EmptyDict]
             ELSE [out |-> "ok",
                   d |-> [o \in {output_quantity} |-> all[o]]]

\* the curve _add_correction derives for the missing key
DerivedCurve(corrections, missing_key) ==
    CASE missing_key = "power" ->
            DivCurve(corrections["capacity"], corrections["COP"])
      [] missing_key = "capacity" ->
            MulCurve(corrections["power"], corrections["COP"])
      [] missing_key = "COP" ->
            DivCurve(corrections["capacity"], corrections["power"])

\* _add_correction(quantity, inplace).  (all_keys - keys).pop() takes any
\* missing key; with more than one missing, each choice needs a curve that
\* is absent and the lookup raises KeyError
AddCorrection(t, hp, quantity, inplace) ==
    LET chk == CheckCorrections(t, hp, quantity)
    IN  IF chk # "ok" THEN Raise(chk, hp)
        ELSE LET corrections == hp[t.corr].byq[quantity]
                 keys        == DOMAIN corrections
                 missing     == OutputQuantities \ keys
             IN  IF OutputQuantities = keys THEN Return(Copy(t), hp)
                 ELSE IF Cardinality(missing) > 1 THEN Raise("KeyError", hp)
                 ELSE LET missing_key == CHOOSE k \in missing : TRUE
                      IN  SetCorrection(t, hp, quantity, missing_key,
                             DerivedCurve(corrections, missing_key), inplace)

\* _add_corrections(inplace=True): every input quantity but SHR, which the
\* heap keeps apart.  The quantities are independent of one another, so the
\* iteration order of the set shows only in which failure comes first
RECURSIVE AddCorrectionsOver(_, _, _)
AddCorrectionsOver(t, hp, quantities) ==
    IF quantities = {} THEN Result("ok", <<>>, hp)
    ELSE LET q == CHOOSE x \in quantities : TRUE
             r == AddCorrection(t, hp, q, TRUE)
         IN  IF r.out # "ok" THEN Raise(r.out, r.heap)
             ELSE AddCorrectionsOver(t, r.heap, quantities \ {q})

AddCorrections(t, hp) == AddCorrectionsOver(t, hp, DOMAIN hp[t.corr].byq)

\* set_corrections(input_quantity, new_corrections): the new curve set is
\* stored in the dict the copy shares with self, then completed
SetCorrections(t, hp, input_quantity, new_corrections) ==
    IF CheckMode(t) THEN Raise("RuntimeError", hp)
    ELSE IF t.corr = 0 THEN Raise("TypeError", hp)
    ELSE LET hp1 == [hp EXCEPT ![t.corr].byq = Put(@, input_quantity, new_corrections)]
         IN  AddCorrection(Copy(t), hp1, input_quantity, FALSE)

\* the default manval_factors of a mode
DefaultManval(mode) ==
    DictAttr([q \in (IF mode = "cooling" THEN {"freq", "AFR", "Twbr"}
                     ELSE {"freq", "AFR"}) |-> RInt(1)])

\* the result of the mode setter: the exception or "ok", self and the heap
\* after the assignment, and whether the warning was issued
ModeResult(out, t, hp, w) == [out |-> out, self |-> t, heap |-> hp, warned |-> w]

\* the variant of the mode setter that loads the defaults of the new mode
\* over existing corrections
ModeSetterOverwrite(t, hp, operating_mode) ==
    LET m == ParseMode(operating_mode)
    IN  IF m = "ValueError" THEN ModeResult("ValueError", t, hp, FALSE)
        ELSE LET hp1 == Append(hp, build_default_corrections(m))
                 t1  == [t EXCEPT !.mode = m, !.corr = Len(hp1)]
                 r   == AddCorrections(t1, hp1)
                 t2  == IF t1.manval.isNone
                        THEN [t1 EXCEPT !.manval = DefaultManval(m)] ELSE t1
             IN  ModeResult("ok", t2, r.heap, FALSE)

\* the mode setter
ModeSetter(t, hp, operating_mode) ==
    LET m == ParseMode(operating_mode)
    IN  IF m = "ValueError" THEN ModeResult("ValueError", t, hp, FALSE)
        ELSE IF t.corr = 0
        THEN LET hp1 == Append(hp, build_default_corrections(m))
                 t1  == [t EXCEPT !.mode = m, !.corr = Len(hp1)]
                 r   == AddCorrections(t1, hp1)
             IN  IF r.out # "ok" THEN ModeResult(r.out, t1, r.heap, FALSE)
                 ELSE IF t1.manval.isNone
                 THEN ModeResult("ok", [t1 EXCEPT !.manval = DefaultManval(m)],
                                 r.heap, FALSE)
                 ELSE ModeResult("ok", t1, r.heap, FALSE)
        ELSE LET t1 == [t EXCEPT !.mode = m]
             IN  IF t1.manval.isNone
                 THEN ModeResult("ok", [t1 EXCEPT !.manval = DefaultManval(m)], hp, TRUE)
                 ELSE ModeResult("ok", t1, hp, TRUE)

----------------------------------------------------------------------------
(* Derived columns and normalization *)

\* the result of a DataFrame operation: the exception or "ok", and the frame
Frame(out, levels, cols, rows) ==
    [out |-> out, levels |-> levels, cols |-> cols, rows |-> rows]

\* the values of the missing column in one row
MissingValue(val, missing_column) ==
    CASE missing_column = "power"    -> RDiv(val["capacity"], val["COP"])
      [] missing_column = "capacity" -> RMul(val["power"], val["COP"])
      [] missing_column = "COP"      -> RDiv(val["capacity"], val["power"])

\* _add_missing_df_column(df).  pop() on an empty set raises KeyError; with
\* two or three of the columns missing, whichever pop() takes, the formula
\* reads a column that is absent and raises AttributeError
AddMissingDfColumn(levels, cols, rows) ==
    LET columns == Range(cols)
        missing == OutputQuantities \ columns
    IN  IF columns = OutputQuantities THEN Frame("ok", levels, cols, rows)
        ELSE IF missing = {} THEN Frame("KeyError", levels, cols, rows)
        ELSE IF Cardinality(missing) > 1 THEN Frame("AttributeError", levels, cols, rows)
        ELSE LET missing_column == CHOOSE c \in missing : TRUE
             IN  Frame("ok", levels, Append(cols, missing_column),
                    [i \in 1..Len(rows) |->
                        [key |-> rows[i].key,
                         val |-> Put(rows[i].val, missing_column,
                                     MissingValue(rows[i].val, missing_column))]])

\* _add_missing_column()
AddMissingColumn(t, hp) ==
    LET f == AddMissingDfColumn(t.levels, t.cols, t.rows)
    IN  IF f.out # "ok" THEN Raise(f.out, hp)
        ELSE Return(CopyAttr(f, t), hp)

\* pm[quantity] /= value[0] for every column of values
DivideRows(rows, values) ==
    [i \in 1..Len(rows) |->
        [key |-> rows[i].key,
         val |-> [c \in DOMAIN rows[i].val |->
                    IF c \in Range(values.cols)
                    THEN RDiv(rows[i].val[c], values.rows[1].val[c])
                    ELSE rows[i].val[c]]]]

SymDiff(a, b) == (a \ b) \cup (b \ a)

\* the variant of normalize that returns the copy without setting the flag
NormalizeNoFlag(t, hp, values) ==
    IF t.normalized THEN Raise("RuntimeError", hp)
    ELSE IF CheckMode(t) THEN Raise("RuntimeError", hp)
    ELSE IF values = <<>> THEN Return(Copy(t), hp)
    ELSE Return([Copy(t) EXCEPT !.rows = DivideRows(t.rows, values[1])], hp)

\* normalize(values); values is <<>> for None or <<df>>, df a one-row frame
Normalize(t, hp, values) ==
    IF t.normalized THEN Raise("RuntimeError", hp)
    ELSE IF CheckMode(t) THEN Raise("RuntimeError", hp)
    ELSE LET pm == Copy(t)
         IN  IF values = <<>> THEN Return(pm, hp)
             ELSE
             LET pmcols   == ColSet(pm)
                 vacols   == Range(values[1].cols)
                 mismatch == SymDiff(pmcols, vacols)
             IN  IF mismatch \subseteq OutputQuantities /\ mismatch # OutputQuantities
                 THEN IF Cardinality(pmcols) < Cardinality(vacols)
                      \* pm._obj: a DataFrame has no attribute _obj
                      THEN Raise("AttributeError", hp)
                      ELSE
                      LET va == IF Cardinality(pmcols) > Cardinality(vacols)
                                THEN AddMissingDfColumn(values[1].levels,
                                        values[1].cols, values[1].rows)
                                ELSE Frame("ok", values[1].levels,
                                        values[1].cols, values[1].rows)
                      IN  IF va.out # "ok" THEN Raise(va.out, hp)
                          ELSE IF ~(Range(va.cols) \subseteq pmcols)
                               THEN Raise("KeyError", hp)
                          ELSE Return([pm EXCEPT !.rows = DivideRows(pm.rows, va),
                                                 !.normalized = TRUE], hp)
                 ELSE Raise("ValueError", hp)

----------------------------------------------------------------------------
(* Axis extension *)

\* _check_columns(keys): whether it raises ValueError, and the unmatched
\* names on both sides
CheckColumns(t, keys) ==
    [raises |-> ColSet(t) # keys,
     ucols  |-> ColSet(t) \ keys,
     ukeys  |-> keys \ ColSet(t)]

\* the names the message of _check_columns can list.  With more than one
\* unmatched column it shows element 0 of tuple(set), any one of them, on
\* each side; otherwise it shows the tuples whole
Messages(ucols, ukeys) ==
    LET multiple == Cardinality(ucols) > 1
    IN  {[cols |-> c, keys |-> k] :
            c \in (IF multiple THEN {{x} : x \in ucols} ELSE {ucols}),
            k \in (IF multiple /\ ukeys # {} THEN {{x} : x \in ukeys} ELSE {ukeys})}

RaiseColumns(chk, hp) ==
    [Raise("ValueError", hp) EXCEPT !.ucols = chk.ucols, !.ukeys = chk.ukeys]

\* the variant of correct that scales by correction(entry) alone
ScaleRowsNoAnchor(rows, corrections, entry, manval) ==
    LET factor == [c \in DOMAIN corrections |-> Call(corrections[c], entry)]
    IN  [i \in 1..Len(rows) |->
            [key |-> rows[i].key,
             val |-> [c \in DOMAIN rows[i].val |->
                        IF c \in DOMAIN corrections
                        THEN RMul(rows[i].val[c], factor[c])
                        ELSE rows[i].val[c]]]]

\* new[quantity] *= correction(entry) / correction(manval) on every row
ScaleRows(rows, corrections, entry, manval) ==
    LET factor == [c \in DOMAIN corrections |->
                     RDiv(Call(corrections[c], entry), Call(corrections[c], manval))]
    IN  [i \in 1..Len(rows) |->
            [key |-> rows[i].key,
             val |-> [c \in DOMAIN rows[i].val |->
                        IF c \in DOMAIN corrections
                        THEN RMul(rows[i].val[c], factor[c])
                        ELSE rows[i].val[c]]]]

\* the curve is zero at the anchor: float division raises
ZeroAtAnchor(corrections, manval) ==
    \E c \in DOMAIN corrections : Call(corrections[c], manval)[1] = 0

\* correct(corrections, entry, manval)
Correct(t, hp, corrections, entry, manval) ==
    LET chk == CheckColumns(t, DOMAIN corrections)
    IN  IF chk.raises THEN RaiseColumns(chk, hp)
        ELSE IF ZeroAtAnchor(corrections, manval) THEN Raise("ZeroDivisionError", hp)
        ELSE Return([Copy(t) EXCEPT
                        !.rows = ScaleRows(t.rows, corrections, entry, manval)], hp)

\* the rows of pd.concat(extrusions, keys=entries): block i carries
\* entries[i] as the value of the new outermost level
RECURSIVE ConcatBlocks(_, _, _, _)
ConcatBlocks(rows, corrections, entries, manval) ==
    IF entries = <<>> THEN <<>>
    ELSE LET block == ScaleRows(rows, corrections, Head(entries), manval)
         IN  [i \in 1..Len(block) |->
                [key |-> <<Head(entries)>> \o block[i].key, val |-> block[i].val]]
             \o ConcatBlocks(rows, corrections, Tail(entries), manval)

\* extend(corrections, entries, name).  manval_factors[name] raises
\* TypeError on None and KeyError on a missing name; pd.concat raises
\* ValueError when there is nothing to concatenate
Extend(t, hp, corrections, entries, name) ==
    LET chk == CheckColumns(t, DOMAIN corrections)
    IN  IF chk.raises THEN RaiseColumns(chk, hp)
        ELSE IF t.manval.isNone THEN Raise("TypeError", hp)
        ELSE IF name \notin DOMAIN t.manval.d THEN Raise("KeyError", hp)
        ELSE LET manval == t.manval.d[name]
             IN  IF entries # <<>> /\ ZeroAtAnchor(corrections, manval)
                 THEN Raise("ZeroDivisionError", hp)
                 ELSE IF entries = <<>> THEN Raise("ValueError", hp)
                 ELSE Return(CopyAttr(
                        [levels |-> <<name>> \o t.levels, cols |-> t.cols,
                         rows |-> ConcatBlocks(t.rows, corrections, entries, manval)],
                        t), hp)

----------------------------------------------------------------------------
(* Row-index levels *)

Count(levels, name) == Cardinality({i \in 1..Len(levels) : levels[i] = name})

IndexOf(levels, name) == CHOOSE i \in 1..Len(levels) :
    levels[i] = name /\ \A j \in 1..(i - 1) : levels[j] # name

\* MultiIndex._get_level_number(name): "ok" or the exception
LevelLookup(levels, name) ==
    IF Count(levels, name) > 1 THEN "ValueError"
    ELSE IF Count(levels, name) = 0 THEN "KeyError"
    ELSE "ok"

\* index.get_level_values(name) of a level that exists
LevelValues(f, name) ==
    [i \in 1..Len(f.rows) |-> f.rows[i].key[IndexOf(f.levels, name)]]

\* Index.unique(): the values in order of first appearance
RECURSIVE Unique(_)
Unique(s) ==
    IF s = <<>> THEN <<>>
    ELSE LET init == Unique(SubSeq(s, 1, Len(s) - 1))
             last == s[Len(s)]
         IN  IF last \in Range(init) THEN init ELSE Append(init, last)

\* reorder_levels(order): every name is looked up first, then the number of
\* levels is compared
ReorderLevels(f, order) ==
    IF \E j \in 1..Len(order) : LevelLookup(f.levels, order[j]) # "ok"
    THEN LET j == CHOOSE k \in 1..Len(order) :
                    /\ LevelLookup(f.levels, order[k]) # "ok"
                    /\ \A l \in 1..(k - 1) : LevelLookup(f.levels, order[l]) = "ok"
         IN  Frame(LevelLookup(f.levels, order[j]), f.levels, f.cols, f.rows)
    ELSE IF Len(order) # Len(f.levels)
    THEN Frame("AssertionError", f.levels, f.cols, f.rows)
    ELSE Frame("ok", order, f.cols,
            [i \in 1..Len(f.rows) |->
                [key |-> [j \in 1..Len(order) |->
                            f.rows[i].key[IndexOf(f.levels, order[j])]],
                 val |-> f.rows[i].val]])

\* droplevel(name)
DropLevel(f, name) ==
    IF LevelLookup(f.levels, name) # "ok"
    THEN Frame(LevelLookup(f.levels, name), f.levels, f.cols, f.rows)
    ELSE LET p    == IndexOf(f.levels, name)
             n    == Len(f.levels)
             cut(s) == SubSeq(s, 1, p - 1) \o SubSeq(s, p + 1, n)
         IN  Frame("ok", cut(f.levels), f.cols,
                [i \in 1..Len(f.rows) |->
                    [key |-> cut(f.rows[i].key), val |-> f.rows[i].val]])

\* lexicographic order on index keys of equal length
RECURSIVE KeyLess(_, _)
KeyLess(a, b) ==
    IF a = <<>> THEN FALSE
    ELSE IF RLess(Head(a), Head(b)) THEN TRUE
    ELSE IF RLess(Head(b), Head(a)) THEN FALSE
    ELSE KeyLess(Tail(a), Tail(b))

\* one row inserted into sorted rows, after the rows that are not greater
RECURSIVE InsertRow(_, _)
InsertRow(sorted, r) ==
    IF sorted = <<>> THEN <<r>>
    ELSE IF KeyLess(r.key, Head(sorted).key) THEN <<r>> \o sorted
    ELSE <<Head(sorted)>> \o InsertRow(Tail(sorted), r)

\* sort_index()
RECURSIVE SortIndex(_)
SortIndex(rows) ==
    IF rows = <<>> THEN <<>>
    ELSE InsertRow(SortIndex(SubSeq(rows, 1, Len(rows) - 1)), rows[Len(rows)])

\* the variant of reindex that leaves the columns as they are
ReindexKeep(f, cols) == Frame("ok", f.levels, f.cols, f.rows)

\* reindex(cols, axis='columns') where every name of cols is a column
Reindex(f, cols) ==
    Frame("ok", f.levels, cols,
        [i \in 1..Len(f.rows) |->
            [key |-> f.rows[i].key,
             val |-> [c \in Range(cols) |-> f.rows[i].val[c]]]])

----------------------------------------------------------------------------
(* Full map assembly *)

HeatingLevels == <<"Tdbr", "Tdbo", "AFR", "freq">>
CoolingLevels == <<"Tdbr", "Twbr", "Tdbo", "AFR", "freq">>
HeatingColumns == <<"power", "capacity">>
CoolingColumns == <<"power", "sensible_capacity", "latent_capacity">>

\* the heating branch of fillmap
FillHeating(t, hp, with_AFR, norm) ==
    LET ordered == ReorderLevels(with_AFR, HeatingLevels)
    IN  IF ordered.out # "ok" THEN Raise(ordered.out, hp)
        ELSE
        LET sorted == [ordered EXCEPT !.rows = SortIndex(ordered.rows)]
            normed == Normalize(CopyAttr(sorted, t), hp, norm)
        IN  IF normed.out # "ok" THEN normed
            ELSE Return(CopyAttr(Reindex(normed.ret[1], HeatingColumns), t), hp)

\* sensible_capacity and latent_capacity added, capacity dropped
SplitCapacity(f, SHR) ==
    [i \in 1..Len(f.rows) |->
        LET r   == f.rows[i]
            Tdb == r.key[IndexOf(f.levels, "Tdbr")]
            Twb == r.key[IndexOf(f.levels, "Twbr")]
            sensible == RMul(r.val["capacity"], Call(SHR, RSub(Tdb, Twb)))
        IN  [key |-> r.key,
             val |-> [c \in (DOMAIN r.val \ {"capacity"})
                            \cup {"sensible_capacity", "latent_capacity"} |->
                        CASE c = "sensible_capacity" -> sensible
                          [] c = "latent_capacity" -> RSub(r.val["capacity"], sensible)
                          [] OTHER -> r.val[c]]]]

\* the cooling branch of fillmap
FillCooling(t, hp, with_AFR, norm) ==
    LET dropped == DropLevel(with_AFR, "Twbr")
    IN  IF dropped.out # "ok" THEN Raise(dropped.out, hp)
        ELSE
        LET without_Twbr == CopyAttr(dropped, t)
            Twbr         == Unique(LevelValues(with_AFR, "Twbr"))
            Twbr_corr    == GetCorrection(t, hp, "Twbr", "None")
        IN  IF Twbr_corr.out # "ok" THEN Raise(Twbr_corr.out, hp)
            ELSE
            LET with_Twbr == Extend(without_Twbr, hp, Twbr_corr.d, Twbr, "Twbr")
            IN  IF with_Twbr.out # "ok" THEN with_Twbr
                ELSE
                LET normed == Normalize(with_Twbr.ret[1], hp, norm)
                IN  IF normed.out # "ok" THEN normed
                    ELSE
                    LET permap == normed.ret[1]
                    IN  IF LevelLookup(permap.levels, "Tdbr") # "ok"
                        THEN Raise(LevelLookup(permap.levels, "Tdbr"), hp)
                        ELSE IF hp[t.corr].SHR = <<>> THEN Raise("KeyError", hp)
                        ELSE
                        LET split   == [permap EXCEPT
                                          !.rows = SplitCapacity(permap, hp[t.corr].SHR[1])]
                            ordered == ReorderLevels(split, CoolingLevels)
                        IN  IF ordered.out # "ok" THEN Raise(ordered.out, hp)
                            ELSE Return(CopyAttr(
                                    Reindex([ordered EXCEPT
                                               !.rows = SortIndex(ordered.rows)],
                                            CoolingColumns), t), hp)

\* fillmap(norm); norm is <<>> for None or <<df>>
Fillmap(t, hp, norm) ==
    IF CheckMode(t) THEN Raise("RuntimeError", hp)
    ELSE IF norm # <<>> /\ t.normalized THEN Raise("RuntimeError", hp)
    ELSE
    LET freq_corr == GetCorrection(t, hp, "freq", "None")
    IN  IF freq_corr.out # "ok" THEN Raise(freq_corr.out, hp)
        ELSE
        LET completed == AddMissingColumn(t, hp)
        IN  IF completed.out # "ok" THEN completed
            ELSE IF "freq" \notin DOMAIN t.entries THEN Raise("KeyError", hp)
            ELSE
            LET with_freq == Extend(completed.ret[1], hp, freq_corr.d,
                                    t.entries["freq"], "freq")
            IN  IF with_freq.out # "ok" THEN with_freq
                ELSE
                LET AFR_corr == GetCorrection(t, hp, "AFR", "None")
                IN  IF AFR_corr.out # "ok" THEN Raise(AFR_corr.out, hp)
                    ELSE IF "AFR" \notin DOMAIN t.entries THEN Raise("KeyError", hp)
                    ELSE
                    LET with_AFR == Extend(with_freq.ret[1], hp, AFR_corr.d,
                                           t.entries["AFR"], "AFR")
                    IN  IF with_AFR.out # "ok" THEN with_AFR
                        ELSE IF t.mode = "heating"
                        THEN FillHeating(t, hp, with_AFR.ret[1], norm)
                        ELSE IF t.mode = "cooling"
                        THEN FillCooling(t, hp, with_AFR.ret[1], norm)
                        ELSE Raise("ValueError", hp)

----------------------------------------------------------------------------
(* File export.  A file is the sequence of its lines, each one ended by a  *)
(* newline; text is a sequence of characters.                              *)

\* the characters of the index level and column names
Spell(name) ==
    CASE name = "Tdbr" ->
           <<"T", "d", "b", "r">>
      [] name = "Tdbo" ->
           <<"T", "d", "b", "o">>
      [] name = "Twbr" ->
           <<"T", "w", "b", "r">>
      [] name = "freq" ->
           <<"f", "r", "e", "q">>
      [] name = "AFR" ->
           <<"A", "F", "R">>
      [] name = "capacity" ->
           <<"c", "a", "p", "a", "c", "i", "t", "y">>
      [] name = "power" ->
           <<"p", "o", "w", "e", "r">>
      [] name = "COP" ->
           <<"C", "O", "P">>
      [] name = "SHR" ->
           <<"S", "H", "R">>
      [] name = "sensible_capacity" ->
           <<"s", "e", "n", "s", "i", "b", "l", "e", "_", "c", "a", "p", "a", "c",
           "i", "t", "y">>
      [] name = "latent_capacity" ->
           <<"l", "a", "t", "e", "n", "t", "_", "c", "a", "p", "a", "c", "i", "t",
           "y">>
      [] name = "T(r)" ->
           <<"T", "(", "r", ")">>
\* str.replace('(', '').replace(')', '')
StripParens(s) == SelectSeq(s, LAMBDA c : c \notin {"(", ")"})

\* sep.join(fields)
RECURSIVE Join(_, _)
Join(fields, sep) ==
    IF fields = <<>> THEN <<>>
    ELSE IF Len(fields) = 1 THEN fields[1]
    ELSE fields[1] \o sep \o Join(Tail(fields), sep)

Digit(k) == <<"0", "1", "2", "3", "4", "5", "6", "7", "8", "9">>[k + 1]

\* str(n) of a natural number
RECURSIVE Digits(_)
Digits(n) ==
    IF n < 10 THEN <<Digit(n)>>
    ELSE Append(Digits(n \div 10), Digit(n % 10))

\* the first k decimals of r / d, where 0 <= r < d
RECURSIVE FracDigits(_, _, _)
FracDigits(r, d, k) ==
    IF k = 0 THEN <<>>
    ELSE <<(r * 10) \div d>> \o FracDigits((r * 10) % d, d, k - 1)

\* what is left of r / d after its first k decimals, times d * 10^k
RECURSIVE FracRem(_, _, _)
FracRem(r, d, k) == IF k = 0 THEN r ELSE FracRem((r * 10) % d, d, k - 1)

\* one unit added in the last place of a run of decimals
RECURSIVE Increment(_)
Increment(ds) ==
    IF ds = <<>> THEN [carry |-> 1, ds |-> <<>>]
    ELSE LET n == Len(ds)
         IN  IF ds[n] < 9 THEN [carry |-> 0, ds |-> [ds EXCEPT ![n] = ds[n] + 1]]
             ELSE LET p == Increment(SubSeq(ds, 1, n - 1))
                  IN  [carry |-> p.carry, ds |-> Append(p.ds, 0)]

RECURSIVE StripZeros(_)
StripZeros(ds) ==
    IF Len(ds) > 1 /\ ds[Len(ds)] = 0 THEN StripZeros(SubSeq(ds, 1, Len(ds) - 1))
    ELSE ds

\* the positional notation of the float nearest to x with k decimals (ties
\* to even), the way repr writes a float of ordinary magnitude: at least
\* one decimal, no trailing zeros
Positional(x, k) ==
    LET n    == Abs(x[1])
        d    == x[2]
        fr   == FracDigits(n % d, d, k)
        rem  == FracRem(n % d, d, k)
        up   == 2 * rem > d \/ (2 * rem = d /\ fr[k] % 2 = 1)
        inc  == IF up THEN Increment(fr) ELSE [carry |-> 0, ds |-> fr]
        ds   == StripZeros(inc.ds)
        sign == IF x[1] < 0 THEN <<"-">> ELSE <<>>
    IN  sign \o Digits(n \div d + inc.carry) \o <<".">> \o
        [i \in 1..Len(ds) |-> Digit(ds[i])]

\* str(v) of a float index value
StrFloat(v) == Positional(v, 16)

\* round(10) followed by the float formatting of to_csv
StrRounded(v) == Positional(v, 10)

\* line.rstrip('\r\n')
RECURSIVE RStrip(_)
RStrip(line) ==
    IF line # <<>> /\ line[Len(line)] \in {"\r", "\n"}
    THEN RStrip(SubSeq(line, 1, Len(line) - 1))
    ELSE line

\* the lines of a text whose newlines separate them
RECURSIVE SplitLines(_)
SplitLines(s) ==
    IF \A i \in 1..Len(s) : s[i] # "\n" THEN <<s>>
    ELSE LET p == CHOOSE i \in 1..Len(s) :
                    s[i] = "\n" /\ \A j \in 1..(i - 1) : s[j] # "\n"
         IN  <<SubSeq(s, 1, p - 1)>> \o SplitLines(SubSeq(s, p + 1, Len(s)))

\* prepend_line: f.write(line.rstrip('\r\n') + '\n' + content)
PrependLine(content, line) == SplitLines(RStrip(line)) \o content

RECURSIVE PrependLines(_, _)
PrependLines(content, lines) ==
    IF lines = <<>> THEN content
    ELSE PrependLines(PrependLine(content, Head(lines)), Tail(lines))

TxtHash ==
    <<"!", "#">>

\* to_csv(filename, sep='\t') of a frame under the extra outermost level
\* '!#' whose only key is '': the header line, then one line per row
ToCsv(f) ==
    <<Join(<<TxtHash>> \o [j \in 1..Len(f.levels) |-> Spell(f.levels[j])]
              \o [j \in 1..Len(f.cols) |-> Spell(f.cols[j])], <<"\t">>)>> \o
    [i \in 1..Len(f.rows) |->
        Join(<<<<>>>> \o [j \in 1..Len(f.levels) |-> StrFloat(f.rows[i].key[j])]
               \o [j \in 1..Len(f.cols) |-> StrRounded(f.rows[i].val[f.cols[j]])],
             <<"\t">>)]

\* fetch_index(i): the name of level i and its values without duplicates
FetchIndex(t, i) ==
    [name |-> t.levels[i],
     values |-> Unique([r \in 1..Len(t.rows) |-> t.rows[r].key[i]])]

\* the order that starts at the outermost level
LevelOrderOutermostFirst(nlevels) == [j \in 1..nlevels |-> j]

\* range(nlevels-1, -1, -1): from the innermost level to the outermost
LevelOrder(nlevels) == [j \in 1..nlevels |-> nlevels + 1 - j]

TxtHashSpace ==
    <<"!", "#", " ">>
TxtValues ==
    <<" ", "v", "a", "l", "u", "e", "s", "\n", " ", " ", " ">>
TxtNumberOf ==
    <<"!", "#", " ", "N", "u", "m", "b", "e", "r", " ", "o", "f", " ">>
TxtDataPoints ==
    <<" ", "d", "a", "t", "a", " ", "p", "o", "i", "n", "t", "s", "\n",
      " ", " ", " ">>
\* f"!# {name} values\n   {values_str}\n" without its parentheses
ValuesLine(t, i) ==
    LET index == FetchIndex(t, i)
        values_str == Join([j \in 1..Len(index.values) |->
                               StrFloat(index.values[j])], <<"\t">>)
    IN  StripParens(TxtHashSpace \o Spell(index.name) \o TxtValues
                    \o values_str \o <<"\n">>)

\* f"!# Number of {name} data points\n   {len(values)}\n" without its
\* parentheses
CountLine(t, i) ==
    LET index == FetchIndex(t, i)
    IN  StripParens(TxtNumberOf \o Spell(index.name) \o TxtDataPoints
                    \o Digits(Len(index.values)) \o <<"\n">>)

\* "!#\n!# Performance map\n!#"
PerformanceMapBanner ==
    <<"!", "#", "\n", "!", "#", " ", "P", "e", "r", "f", "o", "r", "m",
      "a", "n", "c", "e", " ", "m", "a", "p", "\n", "!", "#">>
\* the text of the variable `warning`
Warning ==
    <<"!", "#", " ", "T", "h", "i", "s", " ", "i", "s", " ", "a", " ", "d",
      "a", "t", "a", " ", "f", "i", "l", "e", " ", "f", "o", "r", " ", "T",
      "y", "p", "e", " ", "3", "2", "5", "4", ".", " ", "D", "o", " ", "n",
      "o", "t", " ", "c", "h", "a", "n", "g", "e", " ", "t", "h", "e", " ",
      "f", "o", "r", "m", "a", "t", ".", "\n", "!", "#", " ", "I", "n",
      " ", "P", "A", "R", "T", "I", "C", "U", "L", "A", "R", ",", " ", "L",
      "I", "N", "E", "S", " ", "S", "T", "A", "R", "T", "I", "N", "G", " ",
      "W", "I", "T", "H", " ", "!", "#", " ", "M", "U", "S", "T", " ", "B",
      "E", " ", "L", "E", "F", "T", " ", "I", "N", " ", "T", "H", "E", " ",
      "F", "I", "L", "E", " ", "A", "T", " ", "T", "H", "E", "I", "R", " ",
      "L", "O", "C", "A", "T", "I", "O", "N", ".", "\n", "!", "#", " ",
      "C", "o", "m", "m", "e", "n", "t", "s", " ", "w", "i", "t", "h", "i",
      "n", " ", "\"", "n", "o", "r", "m", "a", "l", " ", "l", "i", "n",
      "e", "s", "\"", " ", "(", "n", "o", "t", " ", "s", "t", "a", "r",
      "t", "i", "n", "g", " ", "w", "i", "t", "h", " ", "!", "#", ")", " ",
      "a", "r", "e", " ", "o", "p", "t", "i", "o", "n", "a", "l", " ", "b",
      "u", "t", " ", "t", "h", "e", " ", "d", "a", "t", "a", " ", "m", "u",
      "s", "t", " ", "b", "e", " ", "t", "h", "e", "r", "e", ".", "\n",
      "!", "#", "\n", "!", "#", " ", "I", "n", "d", "e", "p", "e", "n",
      "d", "e", "n", "t", " ", "v", "a", "r", "i", "a", "b", "l", "e", "s",
      "\n", "!", "#">>
StrRow ==
    <<"r", "o", "w">>
StrCol ==
    <<"c", "o", "l">>
\* levels[-1:0:-1] of the levels below '!#'
Reverse(s) == [j \in 1..Len(s) |-> s[Len(s) + 1 - j]]

\* majororder arguments: a str, or an object of another type
StrArg(chars) == [isStr |-> TRUE, chars |-> chars]
NotAStr == [isStr |-> FALSE, chars |-> <<>>]

Printed(out, file) == [out |-> out, file |-> file]

\* print_permap(filename, majororder): the exception or "ok", and the lines
\* of the file once the call is over (<<>> when nothing was written)
PrintPermap(t, majororder) ==
    IF ~majororder.isStr THEN Printed("TypeError", <<>>)
    ELSE LET order == StrLower(majororder.chars)
         IN  IF order \notin {StrRow, StrCol} THEN Printed("TypeError", <<>>)
             ELSE LET permap_formatted ==
                          IF order = StrCol THEN ReorderLevels(t, Reverse(t.levels))
                          ELSE Frame("ok", t.levels, t.cols, t.rows)
                  IN  IF permap_formatted.out # "ok"
                      THEN Printed(permap_formatted.out, <<>>)
                      ELSE LET nlevels == Len(t.levels)
                               body == ToCsv([permap_formatted EXCEPT
                                                !.rows = SortIndex(@)])
                               banner == PrependLine(body, PerformanceMapBanner)
                               values ==
                                   PrependLines(banner,
                                       [j \in 1..nlevels |->
                                           ValuesLine(t, LevelOrder(nlevels)[j])])
                               counts ==
                                   PrependLines(values,
                                       [j \in 1..nlevels |->
                                           CountLine(t, LevelOrder(nlevels)[j])])
                           IN  Printed("ok", PrependLine(counts, Warning))

----------------------------------------------------------------------------
(* Inputs *)

FragHeatCap == <<"H", "e", "a", "t">>
FragHeat == <<"h", "e", "a", "t">>
FragCOOL == <<"C", "O", "O", "L">>
FragCool == <<"c", "o", "o", "l">>
FragHe == <<"h", "e">>
FragAt == <<"a", "t">>
FragCo == <<"C", "o">>
FragOl == <<"o", "l">>
FragIng == <<"i", "n", "g">>
FragPump == <<" ", "p", "u", "m", "p", " ", "-", " ">>
FragX == <<"x">>

Fragments ==
    {FragHeatCap, FragHeat, FragCOOL, FragCool, FragHe, FragAt, FragCo,
     FragOl, FragIng, FragPump, FragX}

\* the strings made of at most n fragments
RECURSIVE Concatenations(_)
Concatenations(n) ==
    IF n = 0 THEN {<<>>}
    ELSE LET shorter == Concatenations(n - 1)
         IN  shorter \cup {a \o f : a \in shorter, f \in Fragments}

\* mode strings assigned under SpecMode
ModeStrings == Concatenations(MaxFrags)

\* mode strings assigned under Spec: "Heating", "COOLING",
\* "heat pump - heating", "Coolheat", "x"
ModeStringsMain ==
    {FragHeatCap \o FragIng,
     FragCOOL \o <<"I", "N", "G">>,
     FragHeat \o FragPump \o FragHeat \o FragIng,
     FragCo \o FragOl \o FragHeat,
     FragX}

Row(key, capacity, power) ==
    [key |-> key,
     val |-> [c \in {"capacity", "power"} |->
                IF c = "capacity" THEN capacity ELSE power]]

\* a heating map: capacity and power by (Tdbr, Tdbo)
HeatMap ==
    NewAccessor(<<"Tdbr", "Tdbo">>, <<"capacity", "power">>,
        <<Row(<<RInt(20), RInt(0)>>, RInt(3), RInt(1)),
          Row(<<RInt(20), RInt(7)>>, RInt(4), RInt(1))>>)

\* a cooling map: capacity and power by (Tdbr, Twbr, Tdbo), two Twbr values
CoolMap ==
    NewAccessor(<<"Tdbr", "Twbr", "Tdbo">>, <<"capacity", "power">>,
        <<Row(<<RInt(25), RInt(15), RInt(30)>>, RInt(3), RInt(1)),
          Row(<<RInt(25), RInt(15), RInt(35)>>, RInt(2), RInt(1)),
          Row(<<RInt(25), RInt(20), RInt(30)>>, RInt(4), RInt(2))>>)

\* a map that carries all three output quantities
FullMap ==
    NewAccessor(<<"Tdbr", "Tdbo">>, <<"capacity", "power", "COP">>,
        <<[key |-> <<RInt(20), RInt(0)>>,
           val |-> [c \in OutputQuantities |->
                      CASE c = "capacity" -> RInt(6) [] c = "power" -> RInt(2)
                        [] c = "COP" -> RInt(3)]]>>)

InitTables == {HeatMap, CoolMap, FullMap}

\* one-row frames of rated values
Rated(cols) ==
    [levels |-> <<>>, cols |-> cols,
     rows |-> <<[key |-> <<>>,
                 val |-> [c \in Range(cols) |->
                            CASE c = "capacity" -> RInt(2)
                              [] c = "power" -> Rat(1, 2)
                              [] c = "COP" -> RInt(4)
                              [] OTHER -> RInt(1)]]>>]

RatedValues ==
    {Rated(<<"capacity", "power">>),
     Rated(<<"capacity", "power", "COP">>),
     Rated(<<"power", "COP">>),
     Rated(<<"capacity", "power", "SHR">>)}

\* correction dicts the caller passes to correct and extend
Curves(keys) == [k \in keys |-> IF k = "power" THEN CurveQuad ELSE CurveLin]

CallerCorrections ==
    {Curves({"capacity", "power"}),
     Curves({"capacity"}),
     Curves({"COP", "SHR"})}

\* curve sets the caller passes to set_corrections
NewCorrections ==
    {[k \in keys |-> CurveAff] :
        keys \in {{}, {"power"}, {"power", "capacity"}, {"capacity", "COP"},
                  {"power", "capacity", "COP"},
                  {"power", "capacity", "COP", "SHR"},
                  {"power", "SHR"}, {"power", "capacity", "SHR"}}}

EntryLists == {<<>>, <<RInt(1)>>, <<Rat(1, 2), RInt(2)>>}

NewEntries ==
    {[q \in {"freq", "AFR"} |->
        IF q = "freq" THEN <<Rat(1, 2), RInt(1)>> ELSE <<RInt(1)>>]}

NewManval ==
    {[q \in {"freq", "AFR"} |-> IF q = "freq" THEN RInt(2) ELSE RInt(1)]}

\* majororder arguments: 'row', 'COL', 'x' and an object that is not a str
MajorOrders ==
    {StrArg(StrRow), StrArg(<<"C", "O", "L">>), StrArg(FragX), NotAStr}

\* majororder arguments under Spec: 'row' and 'x'
MajorOrdersMain == {StrArg(StrRow), StrArg(FragX)}

\* the non-empty sequences over S of length at most n
Seqs(S, n) == UNION {[1..k -> S] : k \in 1..n}

LevelNames == {"Tdbr", "Tdbo", "T(r)"}
IndexValues == {RInt(-10), Rat(1, 2)}

\* tables written under SpecPrint: one or two index levels, named freely,
\* any keys, and one column whose values need rounding
PrintTables ==
    InitTables \cup
    UNION {{NewAccessor(levels, <<"capacity">>,
                [i \in 1..Len(keys) |->
                    [key |-> keys[i],
                     val |-> [c \in {"capacity"} |-> Rat(i, 3)]]]) :
              keys \in Seqs([1..Len(levels) -> IndexValues], MaxRows)} :
           levels \in Seqs(LevelNames, 2)}

----------------------------------------------------------------------------
(* The state machine: calls made on the caller's table *)

NoOp ==
    [name |-> "init", modestr |-> <<>>, inq |-> "", outq |-> "",
     curve |-> <<>>, inplace |-> FALSE, newc |-> EmptyDict, corr |-> EmptyDict,
     entry |-> RInt(0), manval |-> RInt(0), entries |-> <<>>, lname |-> "",
     values |-> <<>>, majororder |-> NotAStr]

NoMsg == [cols |-> {}, keys |-> {}]

Init ==
    /\ self \in InitTables
    /\ res = <<>>
    /\ heap = <<>>
    /\ outcome = "ok"
    /\ msg = NoMsg
    /\ got = EmptyDict
    /\ written = <<>>
    /\ warned = FALSE
    /\ op = NoOp
    /\ origin = NoOp
    /\ nops = 0

\* a call that returns r and leaves the attributes of self alone
Called(r, o) ==
    /\ nops < MaxOps
    /\ nops' = nops + 1
    /\ res' = r.ret
    /\ heap' = r.heap
    /\ outcome' = r.out
    /\ msg' \in Messages(r.ucols, r.ukeys)
    /\ got' = EmptyDict
    /\ written' = <<>>
    /\ warned' = FALSE
    /\ op' = o
    /\ UNCHANGED <<self, origin>>

\* pmf.mode = operating_mode
AssignMode(operating_mode) ==
    LET r == ModeSetter(self, heap, operating_mode)
    IN  /\ nops < MaxOps
        /\ nops' = nops + 1
        /\ self' = r.self
        /\ heap' = r.heap
        /\ outcome' = r.out
        /\ warned' = r.warned
        /\ res' = <<>>
        /\ msg' = NoMsg
        /\ got' = EmptyDict
        /\ written' = <<>>
        /\ op' = [NoOp EXCEPT !.name = "mode", !.modestr = operating_mode]
        /\ UNCHANGED origin

SetMode == \E s \in ModeStringsMain : AssignMode(s)

\* pmf.entries = new_entries
SetEntries ==
    \E e \in NewEntries :
        /\ nops < MaxOps
        /\ nops' = nops + 1
        /\ self' = [self EXCEPT !.entries = e]
        /\ outcome' = "ok"
        /\ res' = <<>>
        /\ msg' = NoMsg
        /\ got' = EmptyDict
        /\ written' = <<>>
        /\ warned' = FALSE
        /\ op' = [NoOp EXCEPT !.name = "entries"]
        /\ UNCHANGED <<heap, origin>>

\* pmf.manval_factors = new_values
SetManvalFactors ==
    \E m \in NewManval :
        /\ nops < MaxOps
        /\ nops' = nops + 1
        /\ self' = [self EXCEPT !.manval = DictAttr(m)]
        /\ outcome' = "ok"
        /\ res' = <<>>
        /\ msg' = NoMsg
        /\ got' = EmptyDict
        /\ written' = <<>>
        /\ warned' = FALSE
        /\ op' = [NoOp EXCEPT !.name = "manval_factors"]
        /\ UNCHANGED <<heap, origin>>

CallNormalize ==
    \E v \in {<<>>} \cup {<<df>> : df \in RatedValues} :
        LET r == Normalize(self, heap, v)
        IN  Called(r, [NoOp EXCEPT !.name = "normalize", !.values = v])

CallGetCorrection ==
    \E q \in {"freq"}, o \in {"None", "power", "SHR"} :
        LET r == GetCorrection(self, heap, q, o)
        IN  /\ nops < MaxOps
            /\ nops' = nops + 1
            /\ outcome' = r.out
            /\ got' = r.d
            /\ written' = <<>>
            /\ res' = <<>>
            /\ msg' = NoMsg
            /\ warned' = FALSE
            /\ op' = [NoOp EXCEPT !.name = "get_correction", !.inq = q, !.outq = o]
            /\ UNCHANGED <<self, heap, origin>>

CallSetCorrection ==
    \E o \in {"power", "COP"}, inplace \in BOOLEAN :
        LET r == SetCorrection(self, heap, "freq", o, CurveOne, inplace)
        IN  Called(r, [NoOp EXCEPT !.name = "set_correction", !.inq = "freq", !.outq = o,
                            !.curve = CurveOne, !.inplace = inplace])

CallSetCorrections ==
    \E n \in NewCorrections :
        LET r == SetCorrections(self, heap, "freq", n)
        IN  Called(r, [NoOp EXCEPT !.name = "set_corrections", !.inq = "freq", !.newc = n])

\* the correction dicts a caller has at hand: its own, or self's for freq
Supplied ==
    CallerCorrections \cup
    (IF self.corr # 0 /\ "freq" \in DOMAIN heap[self.corr].byq
     THEN {heap[self.corr].byq["freq"]} ELSE {})

CallCorrect ==
    \E c \in Supplied, entry \in {Rat(1, 2)}, manval \in {RInt(1), RInt(2)} :
        LET r == Correct(self, heap, c, entry, manval)
        IN  Called(r, [NoOp EXCEPT !.name = "correct", !.corr = c, !.entry = entry,
                            !.manval = manval])

CallExtend ==
    \E c \in Supplied, entries \in EntryLists, name \in {"freq", "Twbr"} :
        LET r == Extend(self, heap, c, entries, name)
        IN  Called(r, [NoOp EXCEPT !.name = "extend", !.corr = c, !.entries = entries,
                            !.lname = name])

CallFillmap ==
    \E v \in {<<>>, <<Rated(<<"capacity", "power">>)>>,
              <<Rated(<<"capacity", "power", "SHR">>)>>} :
        LET r == Fillmap(self, heap, v)
        IN  Called(r, [NoOp EXCEPT !.name = "fillmap", !.values = v])

\* pmf.print_permap(filename, majororder)
WriteFile(majororder) ==
    LET r == PrintPermap(self, majororder)
    IN  /\ nops < MaxOps
        /\ nops' = nops + 1
        /\ outcome' = r.out
        /\ written' = r.file
        /\ res' = <<>>
        /\ msg' = NoMsg
        /\ got' = EmptyDict
        /\ warned' = FALSE
        /\ op' = [NoOp EXCEPT !.name = "print_permap", !.majororder = majororder]
        /\ UNCHANGED <<self, heap, origin>>

CallPrintPermap == \E m \in MajorOrdersMain : WriteFile(m)

\* the caller goes on with the table the last call returned
Rebind ==
    /\ res # <<>>
    /\ self' = res[1]
    /\ res' = <<>>
    /\ outcome' = "ok"
    /\ msg' = NoMsg
    /\ got' = EmptyDict
    /\ written' = <<>>
    /\ warned' = FALSE
    /\ op' = [NoOp EXCEPT !.name = "rebind"]
    /\ origin' = op
    /\ UNCHANGED <<heap, nops>>

Next ==
    \/ SetMode
    \/ SetEntries
    \/ SetManvalFactors
    \/ CallNormalize
    \/ CallGetCorrection
    \/ CallSetCorrection
    \/ CallSetCorrections
    \/ CallCorrect
    \/ CallExtend
    \/ CallFillmap
    \/ CallPrintPermap
    \/ Rebind

Spec == Init /\ [][Next]_vars

\* one assignment of a mode string drawn at the start, on a table whose mode
\* is unset, heating or cooling
InitMode ==
    /\ \E t \in InitTables, prior \in {<<>>, FragHeat, FragCool} :
          LET r == IF prior = <<>> THEN ModeResult("ok", t, <<>>, FALSE)
                   ELSE ModeSetter(t, <<>>, prior)
          IN  self = r.self /\ heap = r.heap
    /\ op \in {[NoOp EXCEPT !.name = "pending", !.modestr = s] : s \in ModeStrings}
    /\ res = <<>>
    /\ outcome = "ok"
    /\ msg = NoMsg
    /\ got = EmptyDict
    /\ written = <<>>
    /\ warned = FALSE
    /\ origin = NoOp
    /\ nops = 0

AssignPending == op.name = "pending" /\ AssignMode(op.modestr)

SpecMode == InitMode /\ [][AssignPending]_vars

\* print_permap called on tables of any index
InitPrint ==
    /\ self \in PrintTables
    /\ res = <<>>
    /\ heap = <<>>
    /\ outcome = "ok"
    /\ msg = NoMsg
    /\ got = EmptyDict
    /\ written = <<>>
    /\ warned = FALSE
    /\ op = NoOp
    /\ origin = NoOp
    /\ nops = 0

PrintAnyOrder == \E m \in MajorOrders : WriteFile(m)

SpecPrint == InitPrint /\ [][PrintAnyOrder]_vars

----------------------------------------------------------------------------
(* Properties *)

Ret == res[1]

HasHeat(str) == Contains(StrLower(str), StrHeat)
HasCool(str) == Contains(StrLower(str), StrCool)

\* C1 as stated: on a table whose mode is set, normalize called on the table
\* returned by an earlier normalize raises RuntimeError.
C1_SecondNormalizeRaises ==
    (op.name = "normalize" /\ origin.name = "normalize" /\ self.mode # "None")
        => outcome = "RuntimeError"

\* C1 amended: on a table whose mode is set, normalize called on the table
\* returned by an earlier normalize that was given rated values raises
\* RuntimeError.
C1_SecondNormalizeAfterRatedRaises ==
    (op.name = "normalize" /\ origin.name = "normalize" /\ origin.values # <<>>
        /\ self.mode # "None")
        => outcome = "RuntimeError" /\ res = <<>>

C1_Witness ==
    /\ op.name = "normalize" /\ origin.name = "normalize" /\ origin.values # <<>>
    /\ self.mode # "None" /\ outcome = "RuntimeError"

\* C2: the table fillmap returns when given rated values has normalized = TRUE.
C2_FillmapSetsNormalized ==
    (op.name = "fillmap" /\ op.values # <<>> /\ outcome = "ok")
        => Ret.normalized

\* C2, second half: normalize with rated values on a table that fillmap
\* returned when given rated values is rejected with RuntimeError.
C2_NormalizeAfterFillmapRejected ==
    (op.name = "normalize" /\ op.values # <<>>
        /\ origin.name = "fillmap" /\ origin.values # <<>>)
        => outcome = "RuntimeError"

\* C3: set_correction with inplace=False leaves what get_correction returns
\* on the caller's table as it was before the call.
C3_SetCorrectionKeepsCaller ==
    [][(op'.name = "set_correction" /\ ~op'.inplace /\ outcome' = "ok")
        => GetCorrection(self', heap', op'.inq, op'.outq)
            = GetCorrection(self, heap, op'.inq, op'.outq)]_vars

\* C4: when set_corrections raises ValueError on a curve set of fewer than
\* 2 or more than 3 curves, the caller's table holds the corrections it held
\* before the call.
C4_FailedSetCorrectionsKeepsCaller ==
    [][(op'.name = "set_corrections" /\ outcome' = "ValueError"
            /\ Cardinality(DOMAIN op'.newc) \notin {2, 3})
        => /\ self' = self
           /\ heap'[self.corr] = heap[self.corr]]_vars

\* C5 as stated: every string containing 'heat' sets the mode to heating,
\* every string containing 'cool' sets it to cooling, every other string
\* raises ValueError.
C5_HeatSetsHeating ==
    op.name = "mode" =>
        /\ HasHeat(op.modestr) => (outcome = "ok" /\ self.mode = "heating")
        /\ HasCool(op.modestr) => (outcome = "ok" /\ self.mode = "cooling")
        /\ (~HasHeat(op.modestr) /\ ~HasCool(op.modestr)) => outcome = "ValueError"

\* C5 amended: every string containing 'cool' sets the mode to cooling, every
\* string containing 'heat' and not 'cool' sets it to heating, every other
\* string raises ValueError; after a successful assignment the mode is
\* heating or cooling.
C5_CoolFirst ==
    op.name = "mode" =>
        /\ HasCool(op.modestr) => (outcome = "ok" /\ self.mode = "cooling")
        /\ (HasHeat(op.modestr) /\ ~HasCool(op.modestr))
              => (outcome = "ok" /\ self.mode = "heating")
        /\ (~HasHeat(op.modestr) /\ ~HasCool(op.modestr)) => outcome = "ValueError"
        /\ outcome = "ok" => self.mode \in {"heating", "cooling"}

C5_Witness ==
    /\ op.name = "mode" /\ HasHeat(op.modestr) /\ HasCool(op.modestr)
    /\ op.modestr # StrLower(op.modestr)
    /\ outcome = "ok" /\ self.mode = "cooling"

ModeChecked == {"get_correction", "set_correction", "set_corrections",
                "normalize", "fillmap"}

\* C6 as stated: with the mode unset, get_correction, set_correction,
\* set_corrections, normalize, correct, extend and fillmap all fail and none
\* of them returns a result.
C6_AllRequireMode ==
    (self.mode = "None" /\ op.name \in ModeChecked \cup {"correct", "extend"})
        => outcome # "ok" /\ res = <<>> /\ got = EmptyDict

\* C6 amended: with the mode unset, get_correction, set_correction,
\* set_corrections, normalize and fillmap raise RuntimeError and return
\* nothing.
C6_CheckedRequireMode ==
    (self.mode = "None" /\ op.name \in ModeChecked)
        => outcome = "RuntimeError" /\ res = <<>> /\ got = EmptyDict

C6_Witness ==
    self.mode = "None" /\ op.name = "fillmap" /\ outcome = "RuntimeError"

\* C7: a mode assignment on a table that has corrections updates the mode,
\* leaves the corrections as they were and warns; corrections change in a
\* mode assignment only when they were unset.
C7_ModeKeepsCorrections ==
    [][(op'.name = "mode" /\ outcome' = "ok")
        => /\ self'.mode = (IF HasCool(op'.modestr) THEN "cooling" ELSE "heating")
           /\ self.corr # 0 => (self'.corr = self.corr /\ heap' = heap /\ warned')
           /\ (self'.corr # self.corr \/ heap' # heap)
                => (self.corr = 0 /\ ~warned'
                    /\ heap'[self'.corr].SHR = build_default_corrections(self'.mode).SHR
                    /\ \A q \in DOMAIN build_default_corrections(self'.mode).byq :
                          \A o \in {"capacity", "power"} :
                             heap'[self'.corr].byq[q][o] = DefaultCurves(q)[o])]_vars

C7_Witness ==
    /\ op.name = "mode" /\ outcome = "ok" /\ warned
    /\ self.mode = "cooling" /\ heap[self.corr].SHR = <<>>

\* the columns of self equal the keys of the corrections passed to the call,
\* and manval_factors has an entry for the name passed
ExtendArgsFit ==
    /\ op.name = "extend"
    /\ ColSet(self) = DOMAIN op.corr
    /\ ~self.manval.isNone
    /\ op.lname \in DOMAIN self.manval.d

\* the table returned is self extended by op.entries along op.lname
ExtendedAsSpecified ==
    LET n      == Len(self.rows)
        manval == self.manval.d[op.lname]
    IN  /\ outcome = "ok"
        /\ Len(Ret.rows) = Len(op.entries) * n
        /\ Ret.levels = <<op.lname>> \o self.levels
        /\ Ret.cols = self.cols
        /\ {Ret.rows[k].key[1] : k \in 1..Len(Ret.rows)} = Range(op.entries)
        /\ \A i \in 1..Len(op.entries), j \in 1..n :
              LET r == Ret.rows[(i - 1) * n + j]
              IN  /\ r.key = <<op.entries[i]>> \o self.rows[j].key
                  /\ \A c \in ColSet(self) :
                        r.val[c] = RMul(self.rows[j].val[c],
                                        RDiv(Call(op.corr[c], op.entries[i]),
                                             Call(op.corr[c], manval)))

\* C8 as stated: extend, when the columns equal the correction keys and
\* manval_factors has an entry for name, returns a table of
\* len(entries) * rows rows with name as new outermost level, whose values
\* are entries, each block being the rows scaled by
\* correction(entry) / correction(manval_factors[name]).
C8_ExtendAnyEntries == ExtendArgsFit => ExtendedAsSpecified

\* C8 amended: the same, for a non-empty sequence of entries.
C8_ExtendNonEmptyEntries ==
    (ExtendArgsFit /\ op.entries # <<>>) => ExtendedAsSpecified

C8_Witness ==
    /\ ExtendArgsFit /\ Len(op.entries) = 2 /\ outcome = "ok"
    /\ self.manval.d[op.lname] # RInt(1)
    /\ Len(Ret.rows) = 2 * Len(self.rows)

\* C9: correct and extend raise ValueError whenever the columns differ from
\* the correction keys, return nothing, and the message names every
\* unmatched column and every unmatched key.
C9_MismatchNamesAll ==
    (op.name \in {"correct", "extend"} /\ ColSet(self) # DOMAIN op.corr)
        => /\ outcome = "ValueError"
           /\ res = <<>>
           /\ msg.cols = ColSet(self) \ DOMAIN op.corr
           /\ msg.keys = DOMAIN op.corr \ ColSet(self)

\* C10: the table fillmap returns has, in heating mode, the columns
\* [power, capacity] and the levels [Tdbr, Tdbo, AFR, freq]; in cooling mode
\* the columns [power, sensible_capacity, latent_capacity], the levels
\* [Tdbr, Twbr, Tdbo, AFR, freq] and as many rows as the rows of the input
\* times the freq entries times the AFR entries times the unique Twbr values
\* of the input.
C10_FillmapShape ==
    (op.name = "fillmap" /\ outcome = "ok") =>
        /\ self.mode = "heating" =>
              /\ Ret.cols = <<"power", "capacity">>
              /\ Ret.levels = <<"Tdbr", "Tdbo", "AFR", "freq">>
        /\ self.mode = "cooling" =>
              /\ Ret.cols = <<"power", "sensible_capacity", "latent_capacity">>
              /\ Ret.levels = <<"Tdbr", "Twbr", "Tdbo", "AFR", "freq">>
              /\ Len(Ret.rows) =
                    Len(self.rows) * Len(self.entries["freq"])
                      * Len(self.entries["AFR"])
                      * Cardinality({self.rows[k].key[IndexOf(self.levels, "Twbr")] :
                                        k \in 1..Len(self.rows)})
        /\ \A k \in 1..Len(Ret.rows) :
              /\ Len(Ret.rows[k].key) = Len(Ret.levels)
              /\ DOMAIN Ret.rows[k].val = Range(Ret.cols)

C10_Witness ==
    /\ op.name = "fillmap" /\ outcome = "ok" /\ self.mode = "cooling"
    /\ op.values # <<>>
    /\ Len(self.entries["freq"]) # Len(DefaultEntries["freq"])

----------------------------------------------------------------------------
(* The exported file *)

TxtDataPointsEnd ==
    <<" ", "d", "a", "t", "a", " ", "p", "o", "i", "n", "t", "s">>

TxtValuesEnd ==
    <<" ", "v", "a", "l", "u", "e", "s">>

TxtIndent ==
    <<" ", " ", " ">>

TxtIndependentVariables ==
    <<"!", "#", " ", "I", "n", "d", "e", "p", "e", "n", "d", "e", "n", "t",
      " ", "v", "a", "r", "i", "a", "b", "l", "e", "s">>

PrintedOk == op.name = "print_permap" /\ outcome = "ok"

\* the number of tab-separated values on a line
NumFields(line) ==
    IF line = <<>> THEN 0
    ELSE 1 + Cardinality({i \in 1..Len(line) : line[i] = "\t"})

\* the layout of the file from top to bottom, the level names written
\* as they are or without their parentheses
FileLayout(strip) ==
    LET n     == Len(self.levels)
        top   == SplitLines(Warning)
        base  == Len(top)
        nm(i) == IF strip THEN StripParens(Spell(self.levels[i]))
                 ELSE Spell(self.levels[i])
        vals(i) == Unique([r \in 1..Len(self.rows) |-> self.rows[r].key[i]])
    IN  /\ Len(written) = base + 4 * n + 3 + 1 + Len(self.rows)
        /\ SubSeq(written, 1, base) = top
        /\ top[base - 1] = TxtIndependentVariables
        /\ \A i \in 1..n :
              LET cnt == base + 2 * i
                  val == base + 2 * n + 2 * i
              IN  /\ written[cnt - 1] = TxtNumberOf \o nm(i) \o TxtDataPointsEnd
                  /\ written[cnt] =
                        TxtIndent \o
                        Digits(NumFields(SubSeq(written[val], 4, Len(written[val]))))
                  /\ written[val - 1] = TxtHashSpace \o nm(i) \o TxtValuesEnd
                  /\ written[val] =
                        TxtIndent \o
                        Join([j \in 1..Len(vals(i)) |-> StrFloat(vals(i)[j])],
                             <<"\t">>)
        /\ SubSeq(written, base + 4 * n + 1, base + 4 * n + 3)
              = SplitLines(PerformanceMapBanner)
        /\ \A k \in (base + 4 * n + 4)..Len(written) :
              NumFields(written[k]) = 1 + n + Len(self.cols)

\* C11: the file print_permap writes holds, from top to bottom, the banner
\* that ends with 'Independent variables', a 'Number of <level> data
\* points' line and its count for each index level from the outermost to
\* the innermost, a '<level> values' line and the tab-joined unique values
\* for each level in the same order, the 'Performance map' banner and the
\* tab-separated body; each count is the number of values on the values
\* line of its level.  <level> is the name of the level as it is.
C11_FileLayout == PrintedOk => FileLayout(FALSE)

\* C11 (amended): the same layout, where <level> is the name of the level
\* without its parentheses.
C11_FileLayoutWithoutParentheses == PrintedOk => FileLayout(TRUE)

\* a two-level table, one level named with parentheses, whose levels have
\* different numbers of values, was written in column-major order
C11_Witness ==
    /\ PrintedOk
    /\ self.levels = <<"T(r)", "Tdbo">>
    /\ Len(self.rows) = 2
    /\ self.rows[1].key[1] = self.rows[2].key[1]
    /\ self.rows[1].key[2] # self.rows[2].key[2]
    /\ op.majororder = StrArg(<<"C", "O", "L">>)

----------------------------------------------------------------------------
(* Reconciling the columns of the table and of the rated values *)

\* normalize(values) was called with rated values on a table whose mode is
\* set and that is not normalized
NormalizeReached ==
    /\ op.name = "normalize"
    /\ op.values # <<>>
    /\ self.mode # "None"
    /\ ~self.normalized

\* the columns found on one side only
Mismatch == SymDiff(ColSet(self), Range(op.values[1].cols))

\* one side misses exactly one of power, capacity, COP, and nothing else
\* differs
OneMissing == Cardinality(Mismatch) = 1 /\ Mismatch \subseteq OutputQuantities

\* C12: normalize with rated values, on a table with mode set and not yet
\* normalized, raises ValueError and returns no table whenever the two
\* column sets differ otherwise than by one side missing exactly one of
\* power, capacity, COP.
C12_OtherMismatchRaisesValueError ==
    (NormalizeReached /\ Mismatch # {} /\ ~OneMissing)
        => (outcome = "ValueError" /\ res = <<>>)

\* the three output quantities of one row, the absent one being derived
\* from capacity = power * COP
Completed(val) ==
    LET missing == OutputQuantities \ DOMAIN val
    IN  IF missing = {} THEN val
        ELSE LET c == CHOOSE x \in missing : TRUE
             IN  Put(val, c, MissingValue(val, c))

\* C13: normalize with rated values, on a table with mode set and not yet
\* normalized, succeeds whenever one side misses exactly one of power,
\* capacity, COP that the other side has, whichever side it is: the
\* returned table is normalized and holds the three quantities, each
\* divided by its rated value, the missing ones derived from
\* capacity = power * COP.
C13_OneMissingSucceeds ==
    (NormalizeReached /\ OneMissing)
        => /\ outcome = "ok"
           /\ res # <<>>
           /\ Ret.normalized
           /\ ColSet(Ret) = OutputQuantities
           /\ Len(Ret.rows) = Len(self.rows)
           /\ \A i \in 1..Len(self.rows) : \A c \in OutputQuantities :
                 Ret.rows[i].val[c] =
                     RDiv(Completed(self.rows[i].val)[c],
                          Completed(op.values[1].rows[1].val)[c])

----------------------------------------------------------------------------
(* Completing the curve set of one input quantity *)

\* arguments at which the identity between the three curves is compared
SamplePoints == {Rat(1, 2), RInt(1), RInt(2)}

\* the curve set holds exactly power, capacity and COP and, when one of
\* them was added to the given ones, capacity(x) = power(x) * COP(x)
CompleteSet(c, given) ==
    /\ DOMAIN c = OutputQuantities
    /\ given # OutputQuantities =>
          \A x \in SamplePoints :
              Call(c["capacity"], x) = RMul(Call(c["power"], x), Call(c["COP"], x))

\* set_corrections was called on a table whose mode and corrections are set
CompletionReached ==
    /\ op.name = "set_corrections"
    /\ self.mode # "None"
    /\ self.corr # 0

\* C14: completing the curve set of one input quantity fails with
\* ValueError when the set holds 0, 1 or 4 or more curves; with 2 or 3
\* curves it succeeds, keeps the curves already there and yields a set whose
\* keys are exactly power, capacity and COP, the added curve satisfying
\* capacity(x) = power(x) * COP(x).
C14_CompletionByCount ==
    CompletionReached =>
        LET n == Cardinality(DOMAIN op.newc)
        IN  IF n < 2 \/ n > 3 THEN outcome = "ValueError"
            ELSE /\ outcome = "ok"
                 /\ res # <<>>
                 /\ CompleteSet(heap[Ret.corr].byq[op.inq], DOMAIN op.newc)
                 /\ \A k \in DOMAIN op.newc :
                       heap[Ret.corr].byq[op.inq][k] = op.newc[k]

----------------------------------------------------------------------------
(* The attribute bundle *)

Transformations ==
    {"normalize", "correct", "extend", "fillmap", "set_correction",
     "set_corrections"}

\* the corrections of the two heaps differ at most in the curves of one
\* input quantity of one dict
SameCurvesBut(hp1, hp2, id, input_quantity) ==
    /\ Len(hp1) = Len(hp2)
    /\ \A i \in 1..Len(hp1) :
          /\ hp1[i].SHR = hp2[i].SHR
          /\ DOMAIN hp1[i].byq \ {input_quantity} = DOMAIN hp2[i].byq \ {input_quantity}
          /\ \A q \in DOMAIN hp1[i].byq \ {input_quantity} :
                hp1[i].byq[q] = hp2[i].byq[q]
          /\ i # id => hp1[i] = hp2[i]

\* C15: the table returned by normalize, correct, extend, fillmap,
\* set_correction or set_corrections has the mode, the entries and the
\* manval_factors of the table the call was made on, and its corrections,
\* which differ from what they were at most in the curves the call sets.
C15_AttributesTravel ==
    [][(op'.name \in Transformations /\ outcome' = "ok" /\ res' # <<>>)
        => /\ res'[1].mode = self.mode
           /\ res'[1].entries = self.entries
           /\ res'[1].manval = self.manval
           /\ res'[1].corr = self.corr
           /\ IF op'.name \in {"set_correction", "set_corrections"}
              THEN SameCurvesBut(heap, heap', self.corr, op'.inq)
              ELSE heap' = heap]_vars

\* fillmap returned a table from a table whose mode, entries, corrections
\* and manval_factors are no longer the initial ones
C15_Witness ==
    /\ op.name = "fillmap"
    /\ outcome = "ok"
    /\ res # <<>>
    /\ self.mode = "cooling"
    /\ self.entries # DefaultEntries
    /\ Ret.entries = self.entries
    /\ Ret.corr # 0
    /\ ~Ret.manval.isNone

----------------------------------------------------------------------------
(* fillmap on a normalized table *)

\* C16: fillmap raises RuntimeError exactly when the mode is unset or rated
\* values are supplied while the table is already normalized; in
\* particular, on a normalized table with mode set, fillmap without rated
\* values does not raise RuntimeError.
C16_FillmapRuntimeErrorExactly ==
    op.name = "fillmap"
        => (outcome = "RuntimeError"
                <=> (self.mode = "None" \/ (op.values # <<>> /\ self.normalized)))

----------------------------------------------------------------------------
(* The default manufacturer-value factors *)

CoolingManval ==
    [q \in {"freq", "AFR", "Twbr"} |-> RInt(1)]

\* C17: on a table whose manval_factors the caller never assigned, after
\* successful mode assignments the last of which sets cooling,
\* manval_factors holds freq, AFR and Twbr, each with value 1.
C17_CoolingHasTwbrFactor ==
    (op.name = "mode" /\ outcome = "ok" /\ self.mode = "cooling")
        => (~self.manval.isNone /\ self.manval.d = CoolingManval)

====
